---- MODULE Spec2Model ----
(***************************************************************************)
(* A model of gitbump (src/gitbump.py): one run of `git bump`, that is the *)
(* construction of a BumpVersion object, which reads the ini file of the   *)
(* project, bumps the version number, rewrites the ini file and then       *)
(* commits, tags and optionally pushes.                                    *)
(*                                                                         *)
(* Strings are sequences of one-character strings, so that splitting,      *)
(* joining, int() and the formatting of integers are modelled by what they *)
(* do to the text.                                                         *)
(***************************************************************************)
EXTENDS Integers, Sequences, FiniteSets, TLC

VARIABLES
    file,       \* the ini file of the project on disk
    options,    \* the parsed command line (argparse namespace)
    level,      \* self.level
    data,       \* self._ini_file_data
    now,        \* the year datetime.now() gave to update_ini_file
    pc,         \* position of BumpVersion.__init__
    exitCode,   \* exit status of the process, once it has ended
    failure,    \* which failure ended the run ("none" while there is none)
    log         \* the steps of this run, in order, each with its success

vars == <<file, options, level, data, now, pc, exitCode, failure, log>>

----------------------------------------------------------------------------
(* Text                                                                    *)

Digits == <<"0", "1", "2", "3", "4", "5", "6", "7", "8", "9">>

IsDigit(c) == \E i \in 1..10 : Digits[i] = c

DigitVal(c) == (CHOOSE i \in 1..10 : Digits[i] = c) - 1

\* the code point of a character, the order Python compares strings by
Ord(c) ==
    CASE c = " " -> 32
      [] c = "-" -> 45
      [] c = "." -> 46
      [] IsDigit(c) -> 48 + DigitVal(c)
      [] c = "a" -> 97
      [] c = "b" -> 98
      [] c = "r" -> 114
      [] c = "v" -> 118
      [] c = "x" -> 120

\* s < t for Python strings
RECURSIVE StrLess(_, _)
StrLess(s, t) ==
    IF t = <<>> THEN FALSE
    ELSE IF s = <<>> THEN TRUE
    ELSE IF Head(s) = Head(t) THEN StrLess(Tail(s), Tail(t))
    ELSE Ord(Head(s)) < Ord(Head(t))

\* s.split(sep) and re.split on single characters: every separator splits,
\* empty pieces are kept
RECURSIVE SplitOn(_, _)
SplitOn(s, seps) ==
    IF s = <<>> THEN << <<>> >>
    ELSE LET rest == SplitOn(Tail(s), seps)
         IN  IF Head(s) \in seps
                THEN << <<>> >> \o rest
                ELSE << <<Head(s)>> \o Head(rest) >> \o Tail(rest)

\* sep.join(parts)
RECURSIVE Join(_, _)
Join(parts, sep) ==
    IF parts = <<>> THEN <<>>
    ELSE IF Len(parts) = 1 THEN parts[1]
    ELSE parts[1] \o sep \o Join(Tail(parts), sep)

\* int(s) does not raise ValueError (s is over the alphabet of Ord, whose
\* only characters int() accepts are the digits)
IsInt(s) == Len(s) > 0 /\ \A i \in 1..Len(s) : IsDigit(s[i])

\* int(s)
RECURSIVE ParseInt(_)
ParseInt(s) ==
    IF s = <<>> THEN 0
    ELSE 10 * ParseInt(SubSeq(s, 1, Len(s) - 1)) + DigitVal(s[Len(s)])

\* f'{n}' for an integer n >= 0
RECURSIVE FormatInt(_)
FormatInt(n) ==
    IF n < 10 THEN <<Digits[n + 1]>>
    ELSE FormatInt(n \div 10) \o <<Digits[(n % 10) + 1]>>

----------------------------------------------------------------------------
(* BumpVersion.bump_version                                                *)

None == "None"

Levels == {"major", "minor", "patch"}

Prereleases == {"alpha", "beta", "rc"}

\* the dictionary at the top of bump_version, as 1-based list positions
LevelIndex(l) == CASE l = "major" -> 1 [] l = "minor" -> 2 [] l = "patch" -> 3

\* self.prerelease[0]
PrereleaseLetter(p) == CASE p = "alpha" -> "a" [] p = "beta" -> "b" [] p = "rc" -> "r"

\* exit statuses
EXIT_GIT == 1
EXIT_CHDIR == 2
EXIT_INI_NOT_FOUND == 2
EXIT_NO_INI_IN_REPO == 3
EXIT_NO_VERSION == 2
EXIT_PRERELEASE_ORDER == 4
EXIT_RELEASE_AFTER_PRERELEASE == 5
EXIT_COPYRIGHT_FUTURE == 6
\* the status Python ends with on an uncaught exception
EXIT_UNCAUGHT == 1

Ok(v) == [kind |-> "ok", value |-> v, code |-> 0, why |-> "none"]
Exit(c, why) == [kind |-> "exit", value |-> <<>>, code |-> c, why |-> why]
Raise == [kind |-> "raise", value |-> <<>>, code |-> EXIT_UNCAUGHT, why |-> "uncaught"]

\* re.split('\.|-', ...) followed by the zero-filling loop
RECURSIVE ZeroFill(_)
ZeroFill(version) ==
    IF Len(version) < 3 THEN ZeroFill(Append(version, <<"0">>)) ELSE version

SplitVersion(s) == ZeroFill(SplitOn(s, {".", "-"}))

\* Increment, with the lower levels left as they are
IncrementNoReset(version, lv) ==
    [i \in 1..Len(version) |->
        IF i = lv THEN FormatInt(ParseInt(version[i]) + 1) ELSE version[i]]

\* version[level] = int(version[level])+1, then the lower levels reset
Increment(version, lv) ==
    [i \in 1..Len(version) |->
        IF i = lv THEN FormatInt(ParseInt(version[i]) + 1)
        ELSE IF i > lv /\ i <= 3 THEN <<"0">>
        ELSE version[i]]

\* CannotRelease, with the range starting at the level itself
CannotReleaseFromLevel(version, lv) == \E l \in lv..3 : version[l] # <<"0">>

\* any(version[l]!='0' for l in range(level+1,3)): a release at this level
\* cannot follow the pre-release
CannotRelease(version, lv) == \E l \in (lv + 1)..3 : version[l] # <<"0">>

\* Numbers3, with the slice left out
Numbers3Unsliced(version) == Join(version, <<".">>)

\* ".".join(version[:3])
Numbers3(version) == Join(SubSeq(version, 1, 3), <<".">>)

\* the same-kind branch: f'{version[3][0]}{int(version[3][1])+1}' raises
\* IndexError or ValueError
OrdinalRaises(version) == Len(version[4]) < 2 \/ ~IsDigit(version[4][2])

\* the same-kind branch: the pre-release number incremented
NextOrdinal(version) ==
    Numbers3(version) \o <<"-">> \o <<version[4][1]>>
        \o FormatInt(DigitVal(version[4][2]) + 1)

\* NextPrerelease, with the kind in play kept
NextPrereleaseKeepsKind(version, letter) ==
    Numbers3(version) \o <<"-">> \o <<version[4][1], "0">>

\* NextPrerelease, with the patch number bumped once more
NextPrereleaseBumpsAgain(version, letter) ==
    Numbers3(Increment(version, 3)) \o <<"-">> \o <<letter, "0">>

\* a pre-release is in play and another kind is asked for: the next
\* pre-release starts from 0
NextPrerelease(version, letter) == Numbers3(version) \o <<"-">> \o <<letter, "0">>

\* FirstPrerelease, with the level not incremented
FirstPrereleaseNoIncrement(version, lv, letter) ==
    Numbers3(version) \o <<"-">> \o <<letter, "0">>

\* no pre-release is in play: the level is incremented and the pre-release
\* flag added
FirstPrerelease(version, lv, letter) ==
    Numbers3(Increment(version, lv)) \o <<"-">> \o <<letter, "0">>

\* the body of bump_version: the new self._ini_file_data['version'], or the
\* exit it ends with, or an uncaught exception
BumpVersionOf(stored, lvl, prerelease) ==
    LET version == SplitVersion(stored)
        lv      == LevelIndex(lvl)
    IN  IF prerelease = None
        THEN IF Len(version) = 4
             THEN IF CannotRelease(version, lv)
                  THEN Exit(EXIT_RELEASE_AFTER_PRERELEASE, "release after prerelease")
                  ELSE Ok(Numbers3(version))
             ELSE IF ~IsInt(version[lv])
                  THEN Raise
                  ELSE Ok(Join(Increment(version, lv), <<".">>))
        ELSE LET letter == PrereleaseLetter(prerelease)
             IN  IF Len(version) = 4
                 THEN IF StrLess(<<letter>>, version[1])
                      THEN Exit(EXIT_PRERELEASE_ORDER, "prerelease order")
                      ELSE IF <<letter>> = version[1]
                      THEN IF OrdinalRaises(version)
                           THEN Raise
                           ELSE Ok(NextOrdinal(version))
                      ELSE Ok(NextPrerelease(version, letter))
                 ELSE IF ~IsInt(version[lv])
                      THEN Raise
                      ELSE Ok(FirstPrerelease(version, lv, letter))

----------------------------------------------------------------------------
(* BumpVersion.update_ini_file: the copyright date                         *)

\* f'{now:%Y}'
YearText(year) == FormatInt(year)

\* the new value of the copyright key, or the exit or exception it ends with
CopyrightOf(value, year) ==
    LET words == SplitOn(value, {" "})
        copyr == IF Len(words) = 2 THEN words[1] ELSE value
        extra == IF Len(words) = 2 THEN words[2] ELSE <<>>
        Put(c) == Ok(IF extra = <<>> THEN c ELSE c \o <<" ">> \o extra)
    IN  IF \E i \in 1..Len(copyr) : copyr[i] = "-"
        THEN LET years == SplitOn(copyr, {"-"})
             IN  IF Len(years) # 2
                 THEN Raise
                 ELSE Put(years[1] \o <<"-">> \o YearText(year))
        ELSE IF ~IsInt(copyr)
             THEN Raise
             ELSE IF year < ParseInt(copyr)
             THEN Exit(EXIT_COPYRIGHT_FUTURE, "copyright future")
             ELSE IF copyr # YearText(year)
             THEN Put(copyr \o <<"-">> \o YearText(year))
             ELSE Put(copyr)

----------------------------------------------------------------------------
(* git                                                                     *)

\* what a git command can end with: its exit status and the kind of text it
\* wrote to stderr (nothing, a text with 'spelling errors' in it, another)
GitOutcomes == [returncode : {0, 1}, stderr : {"", "spelling errors", "error"}]

\* git() ends the process
GitExits(o) ==
    (o.returncode # 0 \/ o.stderr # "") /\ o.stderr # "spelling errors"

\* the command did what it was asked to do
GitDone(o) == o.returncode = 0

----------------------------------------------------------------------------
(* The ini files and command lines a run can start from                    *)

MaxNumber == 9
MaxOrdinal == 12
FirstYear == 2025
LastYear == 2026

\* major.minor.patch
Release(major, minor, patch) ==
    Join(<<FormatInt(major), FormatInt(minor), FormatInt(patch)>>, <<".">>)

\* major.minor.patch-KX
Prerelease(major, minor, patch, letter, ordinal) ==
    Release(major, minor, patch) \o <<"-", letter>> \o FormatInt(ordinal)

Numbers == {0, 1, MaxNumber}

Ordinals == {0, 1, MaxOrdinal}

ReleaseVersions == {Release(M, m, p) : M \in Numbers, m \in Numbers, p \in Numbers}

PrereleaseVersions ==
    {Prerelease(t[1], t[2], t[3], PrereleaseLetter(t[4]), t[5]) :
        t \in Numbers \X Numbers \X Numbers \X Prereleases \X Ordinals}

\* other texts a hand-edited ini file can hold as its version
OtherVersions ==
    { <<"1">>,
      <<"1", ".", "2">>,
      <<"1", ".", "2", "-", "a", "0">>,
      <<"1", ".", "2", ".", "3", ".", "4">>,
      <<"1", ".", "2", ".", "3", "-", "a", "0", "-", "b", "1">>,
      <<"1", ".", "2", ".", "3", "-", "a">>,
      <<"1", ".", "2", ".", "3", "-", "x", "0">>,
      <<"1", ".", "x", ".", "3">>,
      <<"0", "1", ".", "2", ".", "3">>,
      <<"1", ".", "3", ".", "0", "0", "-", "a", "1">>,
      <<"v", "1", ".", "3", ".", "0", "-", "a", "0">>,
      <<"a", ".", "3", ".", "0", "-", "a", "1">>,
      <<"a", ".", "3", ".", "0", "-", "a">>,
      <<"b", ".", "3", ".", "0", "-", "a", "x">> }

StoredVersions == ReleaseVersions \cup PrereleaseVersions \cup OtherVersions

Years == FirstYear..LastYear

StoredCopyrights ==
    LET singles == {YearText(y) : y \in (FirstYear - 1)..(LastYear + 1)}
        ranges  == {YearText(FirstYear - 2) \o <<"-">> \o y : y \in singles}
    IN  singles \cup ranges
        \cup {c \o <<" ", "x">> : c \in singles \cup ranges}
        \cup { YearText(FirstYear) \o <<" ", "a", " ", "b">>,
               <<"x">>,
               YearText(LastYear + 1) \o <<"-">> \o YearText(LastYear + 2),
               YearText(FirstYear - 2) \o <<"-">> \o YearText(FirstYear - 1)
                   \o <<"-">> \o YearText(FirstYear) }

\* the mapping read from the `key = value` lines of an ini file
IniData ==
    {[version |-> v] : v \in StoredVersions}
    \cup {[version |-> Release(1, 1, MaxNumber), copyright |-> c] :
              c \in StoredCopyrights}
    \cup {[copyright |-> YearText(FirstYear)]}

NoData == [key \in {} |-> <<>>]

\* the ini file of the project: readable, with a line that is not
\* `key = value`, or absent
IniFiles ==
    {[state |-> "ok", data |-> d] : d \in IniData}
    \cup {[state |-> "garbled", data |-> NoData], [state |-> "missing", data |-> NoData]}

\* what argparse gives main(); the commit message is left out: it is only
\* copied into the text of the commit and tag commands
Options ==
    [ level      : Levels \cup {None},
      prerelease : Prereleases \cup {None},
      pushtags   : BOOLEAN,
      ini_file   : {None, "project.ini"} ]

----------------------------------------------------------------------------
(* The run                                                                 *)

Init ==
    /\ file \in IniFiles
    /\ options \in Options
    /\ level = None
    /\ data = NoData
    /\ now = 0
    /\ pc = "options"
    /\ exitCode = 0
    /\ failure = "none"
    /\ log = <<>>

Step(name, ok) == [step |-> name, ok |-> ok]

\* sys.exit(code), or the end of the process on an uncaught exception, in
\* step `name`; ok: the step had done its work before
ExitWith(code, why, name, ok) ==
    /\ pc' = "exit"
    /\ exitCode' = code
    /\ failure' = why
    /\ log' = Append(log, Step(name, ok))

\* EffectiveLevel, with patch as the default whatever is asked for
EffectiveLevelAlwaysPatch(o) == IF o.level = None THEN "patch" ELSE o.level

\* self.level, from the options
EffectiveLevel(o) ==
    IF o.prerelease = None
    THEN (IF o.level = None THEN "patch" ELSE o.level)
    ELSE (IF o.level = None THEN "minor" ELSE o.level)

\* HasVersion, with the check left out
HasVersionUnchecked(d) == TRUE

\* 'version' in self._ini_file_data
HasVersion(d) == "version" \in DOMAIN d

\* the first lines of BumpVersion.__init__
RememberOptions ==
    /\ pc = "options"
    /\ level' = EffectiveLevel(options)
    /\ pc' = "read"
    /\ UNCHANGED <<file, options, data, now, exitCode, failure, log>>

\* read_ini_file; root and found are the results of `git root` and of
\* `git ls-files`, chdir whether os.chdir succeeds
ReadIniFile ==
    /\ pc = "read"
    /\ \E root \in GitOutcomes, found \in GitOutcomes, chdir \in BOOLEAN :
        /\ chdir => GitDone(root)
        /\ IF options.ini_file = None /\ GitExits(root)
             THEN ExitWith(EXIT_GIT, "git", "read", FALSE) /\ UNCHANGED data
           ELSE IF options.ini_file = None /\ ~chdir
             THEN ExitWith(EXIT_CHDIR, "chdir", "read", FALSE) /\ UNCHANGED data
           ELSE IF options.ini_file = None /\ GitExits(found)
             THEN ExitWith(EXIT_GIT, "git", "read", FALSE) /\ UNCHANGED data
           ELSE IF options.ini_file # None /\ file.state = "missing"
             THEN ExitWith(EXIT_INI_NOT_FOUND, "ini not found", "read", FALSE)
                  /\ UNCHANGED data
           ELSE IF file.state = "missing" \/ (options.ini_file = None /\ ~GitDone(found))
             THEN ExitWith(EXIT_NO_INI_IN_REPO, "no ini in repo", "read", FALSE)
                  /\ data' = NoData
           ELSE IF file.state = "garbled"
             THEN ExitWith(EXIT_UNCAUGHT, "uncaught", "read", FALSE)
                  /\ data' = NoData
           ELSE IF ~HasVersion(file.data)
             THEN ExitWith(EXIT_NO_VERSION, "no version", "read", FALSE)
                  /\ data' = file.data
           ELSE /\ data' = file.data
                /\ pc' = "bump"
                /\ log' = Append(log, Step("read", TRUE))
                /\ UNCHANGED <<exitCode, failure>>
    /\ UNCHANGED <<file, options, level, now>>

\* BumpVersion, with the run going on after a rejected bump
BumpVersionGoesOn ==
    /\ pc = "bump"
    /\ LET r == BumpVersionOf(data.version, level, options.prerelease)
       IN  /\ data' = IF r.kind = "ok" THEN [data EXCEPT !.version = r.value] ELSE data
           /\ pc' = "update"
           /\ log' = Append(log, Step("bump", r.kind = "ok"))
           /\ UNCHANGED <<exitCode, failure>>
    /\ UNCHANGED <<file, options, level, now>>

\* bump_version
BumpVersion ==
    /\ pc = "bump"
    /\ LET r == BumpVersionOf(data.version, level, options.prerelease)
       IN  IF r.kind = "ok"
           THEN /\ data' = [data EXCEPT !.version = r.value]
                /\ pc' = "update"
                /\ log' = Append(log, Step("bump", TRUE))
                /\ UNCHANGED <<exitCode, failure>>
           ELSE /\ ExitWith(r.code, r.why, "bump", FALSE)
                /\ UNCHANGED data
    /\ UNCHANGED <<file, options, level, now>>

\* update_ini_file; year is the year of datetime.now(), writable whether
\* the ini file can be opened for writing
UpdateIniFile ==
    /\ pc = "update"
    /\ \E year \in Years, writable \in BOOLEAN :
        LET dated == "copyright" \in DOMAIN data
            c     == IF dated THEN CopyrightOf(data.copyright, year) ELSE Ok(<<>>)
            new   == IF dated THEN [data EXCEPT !.copyright = c.value] ELSE data
        IN  /\ now' = IF dated THEN year ELSE now
            /\ IF c.kind # "ok"
                 THEN /\ ExitWith(c.code, c.why, "write", FALSE)
                      /\ UNCHANGED <<file, data>>
               ELSE IF ~writable
                 THEN /\ ExitWith(EXIT_UNCAUGHT, "uncaught", "write", FALSE)
                      /\ data' = new
                      /\ UNCHANGED file
               ELSE /\ data' = new
                    /\ file' = [state |-> "ok", data |-> new]
                    /\ pc' = "commit"
                    /\ log' = Append(log, Step("write", TRUE))
                    /\ UNCHANGED <<exitCode, failure>>
    /\ UNCHANGED <<options, level>>

\* git(command) in add_git_tag: the command is run, and the process ends
\* with status 1 or goes on to `next`
Git(name, next) ==
    \E o \in GitOutcomes :
        /\ IF GitExits(o)
             THEN ExitWith(EXIT_GIT, "git", name, GitDone(o))
             ELSE /\ pc' = next
                  /\ log' = Append(log, Step(name, GitDone(o)))
                  /\ UNCHANGED <<exitCode, failure>>
        /\ UNCHANGED <<file, options, level, data, now>>

\* add_git_tag: git commit -am ...
GitCommit == pc = "commit" /\ Git("commit", "tag")

\* add_git_tag: git tag -a ..., after which the run is over unless
\* pushtags is set
GitTag == pc = "tag" /\ Git("tag", IF options.pushtags THEN "push" ELSE "done")

\* add_git_tag: git push --tags
GitPush == pc = "push" /\ Git("push", "done")

Next ==
    \/ RememberOptions
    \/ ReadIniFile
    \/ BumpVersion
    \/ UpdateIniFile
    \/ GitCommit
    \/ GitTag
    \/ GitPush

Spec == Init /\ [][Next]_vars

----------------------------------------------------------------------------
(* Versions as the specification describes them                            *)

\* a non-negative integer in decimal, written as a version number is (no
\* leading zeros)
IsNumeral(s) == IsInt(s) /\ (Len(s) = 1 \/ s[1] # "0")

\* s has the shape N.N.N
IsRelease(s) ==
    LET ns == SplitOn(s, {"."})
    IN  Len(ns) = 3 /\ \A i \in 1..3 : IsNumeral(ns[i])

\* s has the shape N.N.N-KX
IsPrerelease(s) ==
    LET halves == SplitOn(s, {"-"})
    IN  /\ Len(halves) = 2
        /\ IsRelease(halves[1])
        /\ Len(halves[2]) >= 2
        /\ halves[2][1] \in {"a", "b", "r"}
        /\ IsNumeral(Tail(halves[2]))

\* <<major, minor, patch>> of a release or pre-release
Triple(s) ==
    LET ns == SplitOn(SplitOn(s, {"-"})[1], {"."})
    IN  <<ParseInt(ns[1]), ParseInt(ns[2]), ParseInt(ns[3])>>

\* the kind of a pre-release
KindOf(s) ==
    LET k == SplitOn(s, {"-"})[2][1]
    IN  CASE k = "a" -> "alpha" [] k = "b" -> "beta" [] k = "r" -> "rc"

\* the ordinal of a pre-release
OrdinalOf(s) == ParseInt(Tail(SplitOn(s, {"-"})[2]))

\* alpha < beta < rc
KindRank(k) == CASE k = "alpha" -> 1 [] k = "beta" -> 2 [] k = "rc" -> 3

\* rule 1: the level incremented, the lower levels zeroed
Bumped(t, lvl) ==
    CASE lvl = "major" -> <<t[1] + 1, 0, 0>>
      [] lvl = "minor" -> <<t[1], t[2] + 1, 0>>
      [] lvl = "patch" -> <<t[1], t[2], t[3] + 1>>

\* the version the ini file holds
Stored == file.data.version

\* bump_version has just run, on the version the ini file holds
JustBumped ==
    /\ Len(log) = 2
    /\ log[2].step = "bump"
    /\ pc \in {"update", "exit"}

\* bump_version has just run and stored a new version in the ini file data
BumpSucceeded == pc = "update" /\ log[2].ok

\* bump_version has just run and stored the version v
BumpedTo(v) == BumpSucceeded /\ data.version = v

----------------------------------------------------------------------------
(* Claims                                                                  *)

\* C1: a requested pre-release kind lower than the kind of the current
\* pre-release always ends the run with exit status 4, and the version is
\* left as it was stored.
C1_RegressionIsRejected ==
    (/\ JustBumped
     /\ IsPrerelease(Stored)
     /\ options.prerelease # None
     /\ KindRank(options.prerelease) < KindRank(KindOf(Stored)))
    => (/\ pc = "exit"
        /\ exitCode = EXIT_PRERELEASE_ORDER
        /\ failure = "prerelease order"
        /\ data.version = Stored)

\* C2: a requested pre-release kind equal to the kind of the current
\* pre-release M.m.p-K{n} gives M.m.p-K{n+1}, whatever the level.
C2_SameKindIncrementsOrdinal ==
    (/\ JustBumped
     /\ IsPrerelease(Stored)
     /\ options.prerelease = KindOf(Stored))
    => (/\ BumpSucceeded
        /\ IsPrerelease(data.version)
        /\ Triple(data.version) = Triple(Stored)
        /\ KindOf(data.version) = KindOf(Stored)
        /\ OrdinalOf(data.version) = OrdinalOf(Stored) + 1)

\* C3: a release bumped at level l with no pre-release requested gives the
\* release whose l-component is one more, whose more significant components
\* are unchanged and whose less significant components are 0.
C3_ReleaseBump ==
    (/\ JustBumped
     /\ IsRelease(Stored)
     /\ options.prerelease = None)
    => (/\ BumpSucceeded
        /\ IsRelease(data.version)
        /\ Triple(data.version) = Bumped(Triple(Stored), level))

C3_Witness ==
    /\ JustBumped
    /\ Stored = Release(1, MaxNumber, MaxNumber)
    /\ options.prerelease = None
    /\ level = "minor"
    /\ BumpedTo(Release(1, MaxNumber + 1, 0))

\* C4: a pre-release M.m.p-K{n} graduates at level l (no pre-release
\* requested) if and only if every component less significant than l is 0;
\* the result is then exactly M.m.p, and otherwise the run ends with exit
\* status 5.  At level patch it always graduates.
C4_Graduation ==
    (/\ JustBumped
     /\ IsPrerelease(Stored)
     /\ options.prerelease = None)
    => LET t == Triple(Stored)
       IN  IF \A i \in (LevelIndex(level) + 1)..3 : t[i] = 0
           THEN BumpedTo(Release(t[1], t[2], t[3]))
           ELSE /\ pc = "exit"
                /\ exitCode = EXIT_RELEASE_AFTER_PRERELEASE
                /\ failure = "release after prerelease"

C4_Witness ==
    /\ JustBumped
    /\ Stored = Prerelease(1, MaxNumber, 0, "b", MaxOrdinal)
    /\ options.prerelease = None
    /\ level = "minor"
    /\ BumpedTo(Release(1, MaxNumber, 0))

\* C5: a release bumped at level l with pre-release kind K requested gives
\* the rule-1 bump of the version at level l with the pre-release K at
\* ordinal 0 attached.
C5_FirstPrerelease ==
    (/\ JustBumped
     /\ IsRelease(Stored)
     /\ options.prerelease # None)
    => (/\ BumpSucceeded
        /\ IsPrerelease(data.version)
        /\ Triple(data.version) = Bumped(Triple(Stored), level)
        /\ KindOf(data.version) = options.prerelease
        /\ OrdinalOf(data.version) = 0)

C5_Witness ==
    /\ JustBumped
    /\ Stored = Release(1, 1, MaxNumber)
    /\ options.prerelease = "rc"
    /\ level = "minor"
    /\ BumpedTo(Prerelease(1, 2, 0, "r", 0))

\* C6: a pre-release of kind K1 bumped with a strictly higher kind K2
\* requested gives the same major.minor.patch with K2 at ordinal 0, whatever
\* the level.
C6_HigherKindStartsAtZero ==
    (/\ JustBumped
     /\ IsPrerelease(Stored)
     /\ options.prerelease # None
     /\ KindRank(options.prerelease) > KindRank(KindOf(Stored)))
    => (/\ BumpSucceeded
        /\ IsPrerelease(data.version)
        /\ Triple(data.version) = Triple(Stored)
        /\ KindOf(data.version) = options.prerelease
        /\ OrdinalOf(data.version) = 0)

C6_Witness ==
    /\ JustBumped
    /\ Stored = Prerelease(1, MaxNumber, 1, "a", 1)
    /\ options.prerelease = "beta"
    /\ level = "major"
    /\ BumpedTo(Prerelease(1, MaxNumber, 1, "b", 0))

\* the run has attempted the step `name`
Attempted(name) == \E i \in 1..Len(log) : log[i].step = name

\* the step `name` of the run has done its work
Done(name) == \E i \in 1..Len(log) : log[i].step = name /\ log[i].ok

\* C7: a bump that fails validation (a release that cannot follow the
\* pre-release, a pre-release kind regression, a malformed stored version)
\* ends the run: the ini file is not rewritten and no commit, tag or push
\* is issued.
C7_FailedBumpEndsRun ==
    \A i \in 1..Len(log) :
        (log[i].step = "bump" /\ ~log[i].ok)
        => (/\ i = Len(log)
            /\ pc = "exit"
            /\ exitCode # 0
            /\ failure \in {"release after prerelease", "prerelease order", "uncaught"}
            /\ file.data = data
            /\ \A name \in {"write", "commit", "tag", "push"} : ~Attempted(name))

C7_Witness ==
    /\ pc = "exit"
    /\ failure = "release after prerelease"
    /\ exitCode = EXIT_RELEASE_AFTER_PRERELEASE
    /\ log[Len(log)] = Step("bump", FALSE)
    /\ Stored = Prerelease(1, MaxNumber, 1, "a", 0)

\* the place of a step in the order of a run
StepOrder(name) ==
    CASE name = "read" -> 1 [] name = "bump" -> 2 [] name = "write" -> 3
      [] name = "commit" -> 4 [] name = "tag" -> 5 [] name = "push" -> 6

\* C8: the steps of a run happen in the order read, bump, write, commit,
\* tag, push (push only with pushtags), and a step begins only if every
\* earlier step completed successfully; a commit command that failed is
\* never followed by a tag or a push.
C8_StepsOnlyAfterSuccess ==
    /\ \A i \in 1..Len(log) : log[i].step = "push" => options.pushtags
    /\ \A i \in 1..Len(log) : StepOrder(log[i].step) = i
    /\ \A i \in 1..(Len(log) - 1) : log[i].ok

\* C9: a run that aborts because of an I/O or a git failure never leaves the
\* ini file rewritten with the new version while the commit or the tag for
\* that version is missing.
C9_NeverPartiallyApplied ==
    (pc = "exit" /\ failure \in {"git", "uncaught"})
    => ~(Done("write") /\ ~(Done("commit") /\ Done("tag")))

\* the failure kinds of the command line interface, and the failures of the
\* run that belong to each
FailureKinds ==
    [ noConfigFile       |-> {"ini not found", "no ini in repo"},
      versionKeyMissing  |-> {"no version"},
      vcsCommandFailed   |-> {"git"},
      releaseAfterPre    |-> {"release after prerelease"},
      kindRegression     |-> {"prerelease order"},
      copyrightInFuture  |-> {"copyright future"} ]

\* the exit statuses the program reports a failure with
ExitCodesOf ==
    [ f \in UNION {FailureKinds[k] : k \in DOMAIN FailureKinds} |->
        CASE f = "ini not found" -> EXIT_INI_NOT_FOUND
          [] f = "no ini in repo" -> EXIT_NO_INI_IN_REPO
          [] f = "no version" -> EXIT_NO_VERSION
          [] f = "git" -> EXIT_GIT
          [] f = "release after prerelease" -> EXIT_RELEASE_AFTER_PRERELEASE
          [] f = "prerelease order" -> EXIT_PRERELEASE_ORDER
          [] f = "copyright future" -> EXIT_COPYRIGHT_FUTURE ]

\* C10: success exits with 0, and each of the six failure kinds exits with a
\* non-zero status that no other of the six kinds exits with.
C10_ExitCodeIdentifiesFailure ==
    /\ pc = "done" => exitCode = 0
    /\ \A k \in DOMAIN FailureKinds :
        (pc = "exit" /\ failure \in FailureKinds[k])
        => /\ exitCode # 0
           /\ \A other \in DOMAIN FailureKinds \ {k} :
                \A f \in FailureKinds[other] : exitCode # ExitCodesOf[f]

\* the dot-separated numbers of a version text: one to three integers
IsNumbers(t) ==
    LET ns == SplitOn(t, {"."})
    IN  Len(ns) \in 1..3 /\ \A i \in 1..Len(ns) : IsInt(ns[i])

\* KX: the letter of a known pre-release kind and an integer ordinal
IsSuffix(x) == Len(x) >= 2 /\ x[1] \in {"a", "b", "r"} /\ IsInt(Tail(x))

\* s matches N.N.N or N.N.N-KX, fewer than three numbers being allowed
MatchesVersion(s) ==
    LET halves == SplitOn(s, {"-"})
    IN  /\ Len(halves) \in 1..2
        /\ IsNumbers(halves[1])
        /\ Len(halves) = 2 => IsSuffix(halves[2])

\* C11: a stored version that does not match N.N.N or N.N.N-KX is rejected
\* with a malformed-version error: it never produces a bumped version and
\* nothing is written, committed or tagged.
C11_MalformedIsRejected ==
    (JustBumped /\ ~MatchesVersion(Stored))
    => (/\ pc = "exit"
        /\ failure = "uncaught"
        /\ data.version = Stored)

\* s matches, with fewer than three numbers
IsShort(s) == MatchesVersion(s) /\ Len(SplitOn(SplitOn(s, {"-"})[1], {"."})) < 3

\* s with each absent number written as 0
ZeroFilled(s) ==
    LET halves == SplitOn(s, {"-"})
        ns     == SplitOn(halves[1], {"."})
        three  == [i \in 1..3 |-> IF i <= Len(ns) THEN ns[i] ELSE <<"0">>]
    IN  Join(three, <<".">>)
            \o (IF Len(halves) = 2 THEN <<"-">> \o halves[2] ELSE <<>>)

\* C12: a stored version with fewer than three numbers, with or without a
\* pre-release suffix, is bumped to what the zero-filled text is bumped to.
C12_ShortIsZeroFilled ==
    (JustBumped /\ IsShort(Stored))
    => LET r == BumpVersionOf(ZeroFilled(Stored), level, options.prerelease)
       IN  IF r.kind = "ok"
           THEN BumpedTo(r.value)
           ELSE pc = "exit" /\ exitCode = r.code /\ failure = r.why

\* C13: the effective level is the requested level when one is given, and
\* otherwise patch if no pre-release kind is requested and minor if one is.
C13_EffectiveLevel ==
    pc # "options"
    => level = (IF options.level # None THEN options.level
                ELSE IF options.prerelease = None THEN "patch"
                ELSE "minor")

C13_Witness ==
    /\ JustBumped
    /\ options.level = None
    /\ options.prerelease = "beta"
    /\ level = "minor"
    /\ Stored = Release(1, 1, MaxNumber)
    /\ BumpedTo(Prerelease(1, 2, 0, "b", 0))

\* C14: an ini file without a version key ends the run with a configuration
\* error before the bump: no version is computed, the file is not rewritten
\* and no commit, tag or push is issued.  (When the file is looked up with
\* git, the run can end earlier, before the file is read, because a git
\* command or the change of directory failed.)
C14_NoVersionKeyStopsBeforeBump ==
    (file.state = "ok" /\ "version" \notin DOMAIN file.data)
    => (/\ pc \in {"options", "read", "exit"}
        /\ "version" \notin DOMAIN data
        /\ \A name \in {"bump", "write", "commit", "tag", "push"} : ~Attempted(name)
        /\ pc = "exit" =>
            (/\ log = <<Step("read", FALSE)>>
             /\ exitCode # 0
             /\ failure \in {"no version", "git", "chdir", "no ini in repo"}
             /\ failure = "no version" => exitCode = EXIT_NO_VERSION
             /\ options.ini_file # None => failure = "no version"))

C14_Witness ==
    /\ file = [state |-> "ok", data |-> [copyright |-> YearText(FirstYear)]]
    /\ pc = "exit"
    /\ failure = "no version"
    /\ exitCode = EXIT_NO_VERSION
    /\ log = <<Step("read", FALSE)>>

----------------------------------------------------------------------------
(* The version text taken apart and put together again                     *)

\* SerializeVersion, with a dot before the pre-release as well
SerializeVersionAllDots(version) == Join(version, <<".">>)

\* the text bump_version stores for the list `version`: the first three
\* parts joined by dots, and the pre-release after a hyphen if there is one
SerializeVersion(version) ==
    IF Len(version) = 4
    THEN Numbers3(version) \o <<"-">> \o version[4]
    ELSE Join(version, <<".">>)

RoundTripInit ==
    /\ file \in {[state |-> "ok", data |-> [version |-> v]] : v \in StoredVersions}
    /\ options = [level |-> None, prerelease |-> None, pushtags |-> FALSE,
                  ini_file |-> None]
    /\ level = EffectiveLevel(options)
    /\ data = file.data
    /\ now = 0
    /\ pc = "split"
    /\ exitCode = 0
    /\ failure = "none"
    /\ log = <<Step("read", TRUE)>>

\* the first statements of bump_version: the list of the parts
SplitStored ==
    /\ pc = "split"
    /\ data' = [data EXCEPT !.version = SplitVersion(data.version)]
    /\ pc' = "join"
    /\ UNCHANGED <<file, options, level, now, exitCode, failure, log>>

\* the parts stored as a text again
JoinParts ==
    /\ pc = "join"
    /\ data' = [data EXCEPT !.version = SerializeVersion(data.version)]
    /\ pc' = "joined"
    /\ UNCHANGED <<file, options, level, now, exitCode, failure, log>>

RoundTripNext == SplitStored \/ JoinParts

RoundTripSpec == RoundTripInit /\ [][RoundTripNext]_vars

\* s has the shape N.N.N or N.N.N-KX
IsFullVersion(s) == MatchesVersion(s) /\ ~IsShort(s)

\* C15: a well-formed version text N.N.N or N.N.N-KX split into its parts
\* and joined again, the way bump_version writes a version, is the same text.
C15_RoundTrip ==
    (pc = "joined" /\ IsFullVersion(Stored)) => data.version = Stored

C15_Witness ==
    /\ pc = "joined"
    /\ Stored = Prerelease(1, MaxNumber, 0, "b", MaxOrdinal)
    /\ data.version = Stored

----------------------------------------------------------------------------
(* Runs of `git bump` one after the other, each on the ini file the run    *)
(* before it left                                                          *)

MaxBumps == 3

\* the command lines of the runs; what is pushed does not matter here
BumpOptions == {o \in Options : ~o.pushtags /\ o.ini_file = None}

BumpsInit ==
    /\ file \in {[state |-> "ok", data |-> [version |-> v]] :
                    v \in ReleaseVersions \cup PrereleaseVersions}
    /\ options \in BumpOptions
    /\ level = EffectiveLevel(options)
    /\ data = file.data
    /\ now = 0
    /\ pc = "options"
    /\ exitCode = 0
    /\ failure = "none"
    /\ log = <<>>

\* a run with the command line o in which the ini file is found, read and
\* written and the git commands succeed: BumpVersion.__init__ up to the new
\* ini file, or up to the exit of bump_version
Invoke ==
    /\ Len(log) < MaxBumps
    /\ \E o \in BumpOptions :
        LET lvl == EffectiveLevel(o)
            r   == BumpVersionOf(file.data.version, lvl, o.prerelease)
        IN  /\ options' = o
            /\ level' = lvl
            /\ data' = IF r.kind = "ok"
                       THEN [file.data EXCEPT !.version = r.value]
                       ELSE file.data
            /\ file' = [file EXCEPT !.data = data']
            /\ pc' = IF r.kind = "ok" THEN "done" ELSE "exit"
            /\ exitCode' = r.code
            /\ failure' = r.why
            /\ log' = Append(log, Step("bump", r.kind = "ok"))
    /\ UNCHANGED now

BumpsNext == Invoke

BumpsSpec == BumpsInit /\ [][BumpsNext]_vars

\* C16: starting from a well-formed version, after any sequence of bumps,
\* successful or rejected, the stored version is a release N.N.N or has
\* exactly one pre-release component with a known kind and an ordinal >= 0.
C16_StaysWellFormed == IsRelease(Stored) \/ IsPrerelease(Stored)

C16_Witness ==
    /\ log = <<Step("bump", TRUE), Step("bump", TRUE), Step("bump", FALSE)>>
    /\ pc = "exit"
    /\ Stored = Prerelease(1, MaxNumber + 1, 1, "r", 0)

\* <<a1, a2, a3>> is not above <<b1, b2, b3>> in lexicographic order
TripleLeq(a, b) ==
    \/ a[1] < b[1]
    \/ a[1] = b[1] /\ a[2] < b[2]
    \/ a[1] = b[1] /\ a[2] = b[2] /\ a[3] <= b[3]

\* the pre-release of old is not above the pre-release of new
PrereleaseLeq(old, new) ==
    \/ KindRank(KindOf(old)) < KindRank(KindOf(new))
    \/ KindOf(old) = KindOf(new) /\ OrdinalOf(old) <= OrdinalOf(new)

\* C17: over any sequence of bumps the triple (major, minor, patch) never
\* decreases; while it stays the same and the version stays a pre-release,
\* (kind, ordinal) never decreases; a rejected bump leaves the version as it
\* was.
C17_NeverGoesBackwards ==
    [][LET old == file.data.version
           new == file'.data.version
       IN  /\ TripleLeq(Triple(old), Triple(new))
           /\ (Triple(old) = Triple(new) /\ IsPrerelease(old) /\ IsPrerelease(new))
                => PrereleaseLeq(old, new)
           /\ pc' = "exit" => new = old]_vars

----------------------------------------------------------------------------
(* A pre-release track: bump_version applied to the ini file data again    *)
(* and again, from a release to a pre-release, through pre-releases of the *)
(* same or a higher kind, to the release                                   *)

\* the release the track starts from stays in `file`; `options` and `level`
\* are those of the bump that starts the track
TrackInit ==
    /\ file \in {[state |-> "ok", data |-> [version |-> v]] : v \in ReleaseVersions}
    /\ options \in {o \in BumpOptions : o.prerelease # None}
    /\ level = EffectiveLevel(options)
    /\ data = file.data
    /\ now = 0
    /\ pc = "release"
    /\ exitCode = 0
    /\ failure = "none"
    /\ log = <<>>

\* bump_version with the level lvl and the pre-release flag prerelease, the
\* track going on at `next` if it stores a version
TrackBump(lvl, prerelease, next) ==
    LET r == BumpVersionOf(data.version, lvl, prerelease)
    IN  /\ data' = IF r.kind = "ok" THEN [data EXCEPT !.version = r.value] ELSE data
        /\ pc' = IF r.kind = "ok" THEN next ELSE "exit"
        /\ exitCode' = r.code
        /\ failure' = r.why
        /\ log' = Append(log, Step("bump", r.kind = "ok"))
        /\ UNCHANGED <<file, options, level, now>>

\* the pre-release is started, at the level and with the kind of the options
StartTrack == pc = "release" /\ TrackBump(level, options.prerelease, "track")

\* a pre-release of the same or of a higher kind is asked for, at any level
PrereleaseBump ==
    /\ pc = "track"
    /\ Len(log) < MaxBumps
    /\ \E lvl \in Levels, k \in Prereleases :
        /\ KindRank(k) >= KindRank(KindOf(data.version))
        /\ TrackBump(lvl, k, "track")

\* the release is asked for, at the level the track was started at
Graduate == pc = "track" /\ TrackBump(level, None, "graduated")

TrackNext == StartTrack \/ PrereleaseBump \/ Graduate

TrackSpec == TrackInit /\ [][TrackNext]_vars

\* C18: from a release v, a pre-release started at level l with kind K,
\* followed by any number of pre-release bumps of the same or a higher kind
\* and then by the release at level l, always succeeds and gives the version
\* a release bump of v at level l gives.
C18_TrackEndsAtItsRelease ==
    /\ pc # "exit"
    /\ pc = "track" => IsPrerelease(data.version)
    /\ pc = "graduated" =>
        /\ data.version = Release(Bumped(Triple(Stored), level)[1],
                                  Bumped(Triple(Stored), level)[2],
                                  Bumped(Triple(Stored), level)[3])
        /\ Ok(data.version) = BumpVersionOf(Stored, level, None)

C18_Witness ==
    /\ pc = "graduated"
    /\ Stored = Release(1, MaxNumber, 1)
    /\ level = "minor"
    /\ options.prerelease = "alpha"
    /\ Len(log) = MaxBumps + 1
    /\ data.version = Release(1, MaxNumber + 1, 0)

----------------------------------------------------------------------------
(* The copyright date                                                      *)

\* the years of a copyright value: those of its first word
YearsOf(c) == SplitOn(SplitOn(c, {" "})[1], {"-"})

\* c is a year or a range of two years, alone or followed by one word
IsCopyright(c) ==
    /\ Len(SplitOn(c, {" "})) \in 1..2
    /\ Len(YearsOf(c)) \in 1..2
    /\ \A i \in 1..Len(YearsOf(c)) : IsInt(YearsOf(c)[i])

\* the copyright date lies in the future of the year n
InFuture(c, n) == \E i \in 1..Len(YearsOf(c)) : ParseInt(YearsOf(c)[i]) > n

\* the copyright value brought up to the year n
UpToDate(c, n) ==
    LET words == SplitOn(c, {" "})
        first == YearsOf(c)[1]
        dates == IF Len(YearsOf(c)) = 1 /\ ParseInt(first) = n
                 THEN first
                 ELSE first \o <<"-">> \o FormatInt(n)
    IN  IF Len(words) = 2 THEN dates \o <<" ">> \o words[2] ELSE dates

\* C19: a stored copyright date in the future of the current year, a single
\* year or a range, ends the run with exit status 6 before the ini file is
\* written; otherwise a year Y before the current year N becomes Y-N, Y = N
\* is kept, and a range A-B becomes A-N.
C19_CopyrightDate ==
    [][(/\ pc = "update"
        /\ pc' # "update"
        /\ "copyright" \in DOMAIN data
        /\ IsCopyright(data.copyright))
       => IF InFuture(data.copyright, now')
          THEN /\ pc' = "exit"
               /\ exitCode' = EXIT_COPYRIGHT_FUTURE
               /\ failure' = "copyright future"
               /\ file' = file
          ELSE pc' = "commit" =>
                   file'.data.copyright = UpToDate(data.copyright, now')]_vars

====
